---- MODULE Spec2Model ----
(***************************************************************************)
(* Model of scripts/eval_utils.py: percent_score, corr_between_replicates, *)
(* corr_between_non_replicates, corr_between_perturbation_pairs and        *)
(* corr_between_perturbation_non_pairs.                                    *)
(*                                                                         *)
(* A dataset is a sequence of rows; a row carries its two metadata columns *)
(* and its profile (feature vector) is identified by the row's position.   *)
(* A Pearson correlation is kept symbolic: np.corrcoef is the sequence of  *)
(* row ids it was given, a slice of it is the set of matrix cells <<i, j>> *)
(* (0-based) it keeps, and np.nanmedian is the pair (rows, cells) it       *)
(* reduces, or NaN when no cell is left.                                   *)
(***************************************************************************)
EXTENDS Integers, Sequences, FiniteSets, TLC

VARIABLES
    pc,                \* "idle" | "loop" | "returned" | "raised"
    fn,                \* the function being called
    df,                \* the caller's dataset: its rows
    index,             \* the caller's dataset: its row labels
    caller,            \* the dataset as the caller passed it (at call entry)
    n_samples,
    n_replicates,
    column,            \* group_by_feature / metadata_compound_name
    null_corr,
    compounds,         \* the latest draw of the rejection loop
    rng,               \* the process-wide random generator, which every draw
                       \* advances: kept as the parity of the draws made
    replicate_grouped,
    result,
    how,
    null_dist,
    corr_dist

vars == <<pc, fn, df, index, caller, n_samples, n_replicates, column,
          null_corr, compounds, rng, replicate_grouped, result,
          how, null_dist, corr_dist>>

(***************************************************************************)
(* Bounds                                                                  *)
(***************************************************************************)
MaxNull == 3
MaxObs == 2
MaxVal == 2

Unset == [kind |-> "unset"]

(***************************************************************************)
(* Floating point values: a number or NaN                                  *)
(***************************************************************************)
Num(x) == [nan |-> FALSE, v |-> x]
NaN == [nan |-> TRUE, v |-> 0]

Floats == {Num(x) : x \in 0..MaxVal} \cup {NaN}

SeqsUpTo(S, n) == UNION {[1..k -> S] : k \in 0..n}

\* The non-NaN entries of a distribution, in order (np.nanpercentile drops NaN).
RECURSIVE DropNaN(_)
DropNaN(s) ==
    IF s = <<>> THEN <<>>
    ELSE IF Head(s).nan THEN DropNaN(Tail(s))
         ELSE <<Head(s).v>> \o DropNaN(Tail(s))

RECURSIVE Insert(_, _)
Insert(x, s) ==
    IF s = <<>> THEN <<x>>
    ELSE IF x <= Head(s) THEN <<x>> \o s
         ELSE <<Head(s)>> \o Insert(x, Tail(s))

RECURSIVE Sorted(_)
Sorted(s) == IF s = <<>> THEN <<>> ELSE Insert(Head(s), Sorted(Tail(s)))

\* np.nanpercentile(a, q), linear interpolation between closest ranks. The
\* percentile is returned in hundredths (its value times 100), which keeps
\* the interpolation exact in integers. NaN when no number is left.
nanpercentile(a, q) ==
    LET s == Sorted(DropNaN(a))
        n == Len(s)
        pos == q * (n - 1)
        lo == pos \div 100
        fr == pos % 100
    IN  IF n = 0 THEN NaN
        ELSE IF fr = 0 THEN Num(100 * s[lo + 1])
             ELSE Num(100 * s[lo + 1] + fr * (s[lo + 2] - s[lo + 1]))

\* corr_dist > perc (elementwise); a comparison with NaN is False.
Greater(x, perc) == ~x.nan /\ ~perc.nan /\ 100 * x.v > perc.v

\* corr_dist < perc (elementwise); a comparison with NaN is False.
Less(x, perc) == ~x.nan /\ ~perc.nan /\ 100 * x.v < perc.v

RECURSIVE CountTrue(_)
CountTrue(b) ==
    IF b = <<>> THEN 0
    ELSE (IF Head(b) THEN 1 ELSE 0) + CountTrue(Tail(b))

\* np.mean(mask.astype(float)): a fraction num/den; NaN for an empty array.
mean(b) ==
    IF Len(b) = 0 THEN [nan |-> TRUE, num |-> 0, den |-> 0]
    ELSE [nan |-> FALSE, num |-> CountTrue(b), den |-> Len(b)]

\* Faulty variant: the below-threshold term is left out of the sum.
FracAddMut(a, b) == a

\* The + of two means of masks over the same array (same denominator).
FracAdd(a, b) ==
    IF a.nan \/ b.nan THEN [nan |-> TRUE, num |-> 0, den |-> 0]
    ELSE [nan |-> FALSE, num |-> a.num + b.num, den |-> a.den]

above_threshold(corr, perc_95) == [i \in 1..Len(corr) |-> Greater(corr[i], perc_95)]
below_threshold(corr, perc_5) == [i \in 1..Len(corr) |-> Less(corr[i], perc_5)]

percent_score(null, corr, h) ==
    IF h = "right" THEN
        LET perc_95 == nanpercentile(null, 95)
        IN  [kind |-> "tuple", frac |-> mean(above_threshold(corr, perc_95)),
             thresholds |-> <<perc_95>>]
    ELSE IF h = "left" THEN
        LET perc_5 == nanpercentile(null, 5)
        IN  [kind |-> "tuple", frac |-> mean(below_threshold(corr, perc_5)),
             thresholds |-> <<perc_5>>]
    ELSE IF h = "both" THEN
        LET perc_95 == nanpercentile(null, 95)
            perc_5 == nanpercentile(null, 5)
        IN  [kind |-> "tuple",
             frac |-> FracAdd(mean(above_threshold(corr, perc_95)),
                              mean(below_threshold(corr, perc_5))),
             thresholds |-> <<perc_95, perc_5>>]
    ELSE [kind |-> "None"]

Hows == {"left", "right", "both", "other"}

(***************************************************************************)
(* Datasets                                                                *)
(***************************************************************************)
MaxRows == 3
MaxGroupRows == 4
MaxSamples == 1
MaxReplicates == 2

Commons == {1, 2}
Perts == {1, 2, 3}
Columns == {"common", "pert"}
IndexShifts == {0, 1}

\* The datasets of 1 to n rows whose perturbation_key values are in P.
Datasets(n, P) == UNION {[1..k -> [common : Commons, pert : P]] : k \in 1..n}

\* The row labels 0 .. len(df)-1 that reset_index(drop=True) leaves.
RangeIndex(d) == [i \in 1..Len(d) |-> i - 1]

Min(a, b) == IF a < b THEN a ELSE b

\* The elements of a finite set of integers, ascending.
RECURSIVE Ascending(_)
Ascending(S) ==
    IF S = {} THEN <<>>
    ELSE LET m == CHOOSE x \in S : \A y \in S : x <= y
         IN  <<m>> \o Ascending(S \ {m})

\* The elements of a finite set of <<common, pert>> keys, in groupby's
\* (lexicographic) order.
RECURSIVE KeyOrder(_)
KeyOrder(S) ==
    IF S = {} THEN <<>>
    ELSE LET m == CHOOSE x \in S : \A y \in S :
                      x[1] < y[1] \/ (x[1] = y[1] /\ x[2] <= y[2])
         IN  <<m>> \o KeyOrder(S \ {m})

(***************************************************************************)
(* Symbolic correlations                                                   *)
(***************************************************************************)
NaNCorr == [nan |-> TRUE, rows |-> <<>>, cells |-> {}]

\* np.nanmedian over the cells kept of the correlation matrix of rows.
nanmedian(rows, cells) ==
    IF cells = {} THEN NaNCorr
    ELSE [nan |-> FALSE, rows |-> rows, cells |-> cells]

\* np.corrcoef(x, y): the matrix over the rows of x followed by those of y.
corrcoef(x, y) == x \o y

\* np.fill_diagonal(corr, np.nan): the cells nanmedian still sees.
fill_diagonal(n) == {c \in (0..(n - 1)) \X (0..(n - 1)) : c[1] # c[2]}

\* corr[0:a, a:] of an n x n matrix (numpy clips a slice to the shape).
Slice(n, a) == (0..(Min(a, n) - 1)) \X (a..(n - 1))

(***************************************************************************)
(* corr_between_replicates                                                 *)
(***************************************************************************)
\* The row ids of one group of df.groupby(col), in row order.
Group(d, col, name) == Ascending({i \in 0..(Len(d) - 1) : d[i + 1][col] = name})

\* Faulty variant: no test for a one-row group and no masking of the diagonal.
ReplicateCorrMut(group) == nanmedian(group, (0..(Len(group) - 1)) \X (0..(Len(group) - 1)))

\* replicate_corr of one group: NaN for a single row, else the median of
\* the off-diagonal correlations.
ReplicateCorr(group) ==
    IF Len(group) = 1 THEN NaNCorr
    ELSE nanmedian(group, fill_diagonal(Len(group)))

corr_between_replicates(d, col) ==
    LET names == Ascending({d[i][col] : i \in 1..Len(d)})
    IN  [k \in 1..Len(names) |->
            [name |-> names[k],
             correlation |-> ReplicateCorr(Group(d, col, names[k]))]]

(***************************************************************************)
(* The (common, perturbation) table shared by the two pair functions       *)
(***************************************************************************)
ReplicateGrouped(d) ==
    LET keys == KeyOrder({<<d[i].common, d[i].pert>> : i \in 1..Len(d)})
    IN  [k \in 1..Len(keys) |->
            [common |-> keys[k][1], pert |-> keys[k][2],
             profiles |-> Ascending({i \in 0..(Len(d) - 1) :
                              d[i + 1].common = keys[k][1] /\ d[i + 1].pert = keys[k][2]})]]

\* The profiles column of the rows of rg with this common key, in rg's order.
RECURSIVE ProfilesOf(_, _)
ProfilesOf(rg, c) ==
    IF rg = <<>> THEN <<>>
    ELSE (IF Head(rg).common = c THEN <<Head(rg).profiles>> ELSE <<>>)
         \o ProfilesOf(Tail(rg), c)

CommonGrouped(rg) ==
    LET names == Ascending({rg[k].common : k \in 1..Len(rg)})
    IN  [k \in 1..Len(names) |->
            [common |-> names[k], profiles |-> ProfilesOf(rg, names[k])]]

(***************************************************************************)
(* corr_between_perturbation_pairs                                         *)
(***************************************************************************)
\* Faulty variant: only groups of exactly two perturbations are taken.
HasPairMut(profiles) == Len(profiles) = 2

\* len(common_grouped.iloc[i].profiles) > 1
HasPair(profiles) == Len(profiles) > 1

PairCorr(profiles) ==
    LET compound1_profiles == profiles[1]
        compound2_profiles == profiles[2]
        corr == corrcoef(compound1_profiles, compound2_profiles)
    IN  nanmedian(corr, Slice(Len(corr), Len(profiles[1])))

RECURSIVE PairsLoop(_)
PairsLoop(cg) ==
    IF cg = <<>> THEN <<>>
    ELSE (IF HasPair(Head(cg).profiles) THEN <<PairCorr(Head(cg).profiles)>> ELSE <<>>)
         \o PairsLoop(Tail(cg))

corr_between_perturbation_pairs(d) == PairsLoop(CommonGrouped(ReplicateGrouped(d)))

(***************************************************************************)
(* The rejection loops of the two null samplers                            *)
(***************************************************************************)
\* Faulty variant: the loop runs one pass too many.
LoopCondMut(len, n) == len <= n

\* while len(null_corr) < n_samples
LoopCond(len, n) == len < n

\* Faulty variant: the drawn row indices are counted, not their group values.
DistinctNamesMut(d, col, comp, r) == Cardinality({comp[i] : i \in 1..Len(comp)}) = r

\* len(sample[metadata_compound_name].unique()) == n_replicates
DistinctNames(d, col, comp, r) ==
    Cardinality({d[comp[i] + 1][col] : i \in 1..Len(comp)}) = r

\* np.corrcoef of a single row is a scalar, on which np.fill_diagonal raises
\* ValueError ("array must be at least 2-d").
IsScalar(n) == n = 1

\* Faulty variant: the drawn group indices are compared, not their common_key.
DifferentMoaMut(rg, comp) == comp[1] # comp[2]

\* compound1_moa != compound2_moa
DifferentMoa(rg, comp) == rg[comp[1] + 1].common # rg[comp[2] + 1].common

NonPairCorr(rg, comp) ==
    LET compound1_profiles == rg[comp[1] + 1].profiles
        compound2_profiles == rg[comp[2] + 1].profiles
        corr == corrcoef(compound1_profiles, compound2_profiles)
    IN  nanmedian(corr, Slice(Len(corr), Len(rg[1].profiles)))

(***************************************************************************)
(* Initial states                                                          *)
(***************************************************************************)
Idle ==
    /\ pc = "idle"
    /\ fn = "none"
    /\ n_samples = 0
    /\ n_replicates = 0
    /\ column = "none"
    /\ null_corr = <<>>
    /\ compounds = <<>>
    /\ replicate_grouped = <<>>
    /\ result = Unset
    /\ how = "none"
    /\ null_dist = <<>>
    /\ corr_dist = <<>>

\* A dataset for the samplers: any row labels (a filtered frame keeps the
\* labels of the rows that are left).
Init ==
    /\ df \in Datasets(MaxRows, Commons)
    /\ \E s \in IndexShifts : index = [i \in 1..Len(df) |-> i - 1 + s]
    /\ caller = [df |-> df, index |-> index]
    /\ rng = 0
    /\ Idle

GroupInit ==
    /\ df \in Datasets(MaxGroupRows, Perts)
    /\ index = RangeIndex(df)
    /\ caller = [df |-> df, index |-> index]
    /\ rng = 0
    /\ Idle

ScoreInit ==
    /\ df = <<>>
    /\ index = <<>>
    /\ caller = [df |-> df, index |-> index]
    /\ rng = 0
    /\ Idle

(***************************************************************************)
(* Actions                                                                 *)
(***************************************************************************)
\* The caller takes the outcome; the dataset stays as the call left it.
Reset ==
    /\ pc \in {"returned", "raised"}
    /\ pc' = "idle"
    /\ fn' = "none"
    /\ n_samples' = 0
    /\ n_replicates' = 0
    /\ column' = "none"
    /\ null_corr' = <<>>
    /\ compounds' = <<>>
    /\ replicate_grouped' = <<>>
    /\ result' = Unset
    /\ how' = "none"
    /\ null_dist' = <<>>
    /\ corr_dist' = <<>>
    /\ caller' = [df |-> df, index |-> index]
    /\ UNCHANGED <<df, index, rng>>

PercentScoreCall ==
    /\ pc = "idle"
    /\ \E n \in SeqsUpTo(Floats, MaxNull), o \in SeqsUpTo(Floats, MaxObs), h \in Hows :
          /\ null_dist' = n
          /\ corr_dist' = o
          /\ how' = h
          /\ result' = percent_score(n, o, h)
    /\ fn' = "percent_score"
    /\ pc' = "returned"
    /\ UNCHANGED <<rng, df, index, caller, n_samples, n_replicates, column,
                   null_corr, compounds, replicate_grouped>>

ReplicatesCall ==
    /\ pc = "idle"
    /\ \E col \in Columns :
          /\ column' = col
          /\ result' = [kind |-> "frame", value |-> corr_between_replicates(df, col)]
    /\ fn' = "replicates"
    /\ pc' = "returned"
    /\ caller' = [df |-> df, index |-> index]
    /\ UNCHANGED <<rng, df, index, n_samples, n_replicates, null_corr, compounds,
                   replicate_grouped, how, null_dist, corr_dist>>

PairsCall ==
    /\ pc = "idle"
    /\ result' = [kind |-> "list", value |-> corr_between_perturbation_pairs(df)]
    /\ fn' = "pairs"
    /\ pc' = "returned"
    /\ caller' = [df |-> df, index |-> index]
    /\ UNCHANGED <<rng, df, index, n_samples, n_replicates, column, null_corr, compounds,
                   replicate_grouped, how, null_dist, corr_dist>>

\* corr_between_non_replicates up to its loop: the in-place reset_index.
NonReplicatesStart ==
    /\ pc = "idle"
    /\ \E k \in 0..MaxSamples, r \in 1..MaxReplicates, col \in Columns :
          /\ n_samples' = k
          /\ n_replicates' = r
          /\ column' = col
    /\ fn' = "non_replicates"
    /\ caller' = [df |-> df, index |-> index]
    /\ index' = RangeIndex(df)
    /\ null_corr' = <<>>
    /\ compounds' = <<>>
    /\ pc' = "loop"
    /\ UNCHANGED <<rng, df, replicate_grouped, result, how, null_dist, corr_dist>>

\* One pass of the loop: a draw, the test, the append.
NonReplicatesIter ==
    /\ pc = "loop"
    /\ fn = "non_replicates"
    /\ LoopCond(Len(null_corr), n_samples)
    /\ \E c \in [1..n_replicates -> 0..(Len(df) - 1)] :
          /\ compounds' = c
          /\ IF DistinctNames(df, column, c, n_replicates)
             THEN IF IsScalar(Len(c))
                  THEN /\ pc' = "raised"
                       /\ result' = [kind |-> "ValueError"]
                       /\ UNCHANGED null_corr
                  ELSE /\ null_corr' = Append(null_corr, nanmedian(c, fill_diagonal(Len(c))))
                       /\ UNCHANGED <<pc, result>>
             ELSE UNCHANGED <<pc, result, null_corr>>
    /\ rng' = 1 - rng
    /\ UNCHANGED <<fn, df, index, caller, n_samples, n_replicates, column,
                   replicate_grouped, how, null_dist, corr_dist>>

\* corr_between_perturbation_non_pairs up to its loop.
NonPairsStart ==
    /\ pc = "idle"
    /\ \E k \in 0..MaxSamples : n_samples' = k
    /\ fn' = "non_pairs"
    /\ caller' = [df |-> df, index |-> index]
    /\ index' = RangeIndex(df)
    /\ null_corr' = <<>>
    /\ compounds' = <<>>
    /\ replicate_grouped' = ReplicateGrouped(df)
    /\ pc' = "loop"
    /\ UNCHANGED <<rng, df, n_replicates, column, result, how, null_dist, corr_dist>>

NonPairsIter ==
    /\ pc = "loop"
    /\ fn = "non_pairs"
    /\ LoopCond(Len(null_corr), n_samples)
    /\ \E c \in [1..2 -> 0..(Len(replicate_grouped) - 1)] :
          /\ compounds' = c
          /\ IF DifferentMoa(replicate_grouped, c)
             THEN null_corr' = Append(null_corr, NonPairCorr(replicate_grouped, c))
             ELSE UNCHANGED null_corr
    /\ rng' = 1 - rng
    /\ UNCHANGED <<pc, fn, df, index, caller, n_samples, n_replicates, column,
                   replicate_grouped, result, how, null_dist, corr_dist>>

\* return null_corr, of either sampler.
SamplerReturn ==
    /\ pc = "loop"
    /\ ~LoopCond(Len(null_corr), n_samples)
    /\ pc' = "returned"
    /\ result' = [kind |-> "list", value |-> null_corr]
    /\ UNCHANGED <<rng, fn, df, index, caller, n_samples, n_replicates, column,
                   null_corr, compounds, replicate_grouped, how, null_dist, corr_dist>>

Next ==
    \/ NonReplicatesStart
    \/ NonReplicatesIter
    \/ NonPairsStart
    \/ NonPairsIter
    \/ SamplerReturn
    \/ Reset

GroupNext ==
    \/ ReplicatesCall
    \/ PairsCall
    \/ Reset

ScoreNext ==
    \/ PercentScoreCall
    \/ Reset

Spec == Init /\ [][Next]_vars

\* The interpreter keeps running the loop: a pass that can be taken is taken.
FairSpec == Init /\ [][Next]_vars /\ WF_vars(Next)

GroupSpec == GroupInit /\ [][GroupNext]_vars

ScoreSpec == ScoreInit /\ [][ScoreNext]_vars

(***************************************************************************)
(* Properties                                                              *)
(***************************************************************************)
Samplers == {"non_replicates", "non_pairs"}

\* C1: a sampler that returns for n_samples = k returns exactly k values,
\* and its list never grows past k while the loop runs.
C1_ExactLength ==
    /\ (pc = "returned" /\ fn \in Samplers) => Len(result.value) = n_samples
    /\ (pc = "loop" /\ fn \in Samplers) => Len(null_corr) <= n_samples

C1_Witness ==
    /\ pc = "returned"
    /\ fn = "non_replicates"
    /\ n_samples = MaxSamples
    /\ Len(result.value) = MaxSamples

\* C2: in corr_between_non_replicates the list changes only by one value
\* appended for a draw of n_replicates rows whose group_column values are
\* pairwise distinct; any other draw leaves the list as it was.
C2_DistinctDraws ==
    [][(fn = "non_replicates" /\ pc = "loop" /\ null_corr' # null_corr) =>
          /\ Len(compounds') = n_replicates
          /\ \A i, j \in 1..Len(compounds') :
                i # j => df[compounds'[i] + 1][column] # df[compounds'[j] + 1][column]
          /\ Len(null_corr') = Len(null_corr) + 1
          /\ SubSeq(null_corr', 1, Len(null_corr)) = null_corr
          /\ null_corr'[Len(null_corr')].rows = compounds']_vars

C2_Witness ==
    /\ fn = "non_replicates"
    /\ pc = "loop"
    /\ n_replicates = 2
    /\ Len(null_corr) = 1
    /\ null_corr[1].rows = compounds
    /\ df[compounds[1] + 1][column] # df[compounds[2] + 1][column]
    /\ \E i, j \in 1..Len(df) : i # j /\ df[i][column] = df[j][column]

\* C3: in corr_between_perturbation_non_pairs the list changes only by one
\* value appended for a draw of two different groups none of whose rows
\* share a common_key value; any other draw leaves the list as it was.
C3_DifferentCommon ==
    [][(fn = "non_pairs" /\ pc = "loop" /\ null_corr' # null_corr) =>
          LET g1 == replicate_grouped[compounds'[1] + 1].profiles
              g2 == replicate_grouped[compounds'[2] + 1].profiles
          IN  /\ compounds'[1] # compounds'[2]
              /\ \A a \in 1..Len(g1), b \in 1..Len(g2) :
                    df[g1[a] + 1].common # df[g2[b] + 1].common
              /\ Len(null_corr') = Len(null_corr) + 1
              /\ SubSeq(null_corr', 1, Len(null_corr)) = null_corr]_vars

C3_Witness ==
    /\ fn = "non_pairs"
    /\ pc = "loop"
    /\ Len(null_corr) = 1
    /\ replicate_grouped[compounds[1] + 1].common # replicate_grouped[compounds[2] + 1].common
    /\ \E g, h \in 1..Len(replicate_grouped) :
          g # h /\ replicate_grouped[g].common = replicate_grouped[h].common

\* C4: the fraction of how = "both" is the fraction of "left" plus that of
\* "right" on the same inputs (NaN exactly when they are), and it counts the
\* observed values strictly beyond the two returned thresholds.
C4_Additivity ==
    (pc = "returned" /\ fn = "percent_score" /\ how = "both") =>
        LET l == percent_score(null_dist, corr_dist, "left").frac
            r == percent_score(null_dist, corr_dist, "right").frac
            b == result.frac
            up == result.thresholds[1]
            low == result.thresholds[2]
            I == 1..Len(corr_dist)
        IN  /\ b.nan = (l.nan \/ r.nan)
            /\ ~b.nan =>
                  /\ b.num * l.den * r.den = b.den * (l.num * r.den + r.num * l.den)
                  /\ b.den = Len(corr_dist)
                  /\ b.num =
                        Cardinality({i \in I : ~corr_dist[i].nan /\ ~up.nan
                                                  /\ 100 * corr_dist[i].v > up.v})
                        + Cardinality({i \in I : ~corr_dist[i].nan /\ ~low.nan
                                                  /\ 100 * corr_dist[i].v < low.v})

C4_Witness ==
    /\ pc = "returned"
    /\ fn = "percent_score"
    /\ how = "both"
    /\ ~result.frac.nan
    /\ result.frac.num = 1
    /\ \E i \in 1..Len(corr_dist) :
          ~corr_dist[i].nan /\ 100 * corr_dist[i].v = result.thresholds[1].v

\* No draw of the running sampler can be accepted.
Unsatisfiable ==
    \/ /\ fn = "non_replicates"
       /\ Cardinality({df[i][column] : i \in 1..Len(df)}) < n_replicates
    \/ /\ fn = "non_pairs"
       /\ Cardinality({df[i].common : i \in 1..Len(df)}) < 2

\* C5: a sampler called with n_samples >= 1 on an input for which no draw
\* can be accepted ends (by returning or raising) instead of looping forever.
C5_LoopEnds ==
    (pc = "loop" /\ n_samples >= 1 /\ Unsatisfiable) ~> (pc \in {"returned", "raised"})

\* C6: percent_score called with a mode other than left, right, both ends
\* with an error, never with a normal return.
C6_InvalidModeFails ==
    (fn = "percent_score" /\ pc \in {"returned", "raised"}
        /\ how \notin {"left", "right", "both"}) => pc = "raised"

\* The perturbation_key values found with common_key value c.
PertsOf(c) == {df[i].pert : i \in {j \in 1..Len(df) : df[j].common = c}}

\* The row ids of the dataset with these two key values, ascending.
RowsOf(c, p) ==
    Ascending({i \in 0..(Len(df) - 1) : df[i + 1].common = c /\ df[i + 1].pert = p})

\* C7: corr_between_perturbation_pairs returns one value per common_key
\* group with at least two perturbation_key values and none for a group with
\* one, in key order, each the median of the cross-block of the group's
\* first two perturbations.

C7_OnePerPairedGroup ==
    (pc = "returned" /\ fn = "pairs") =>
        LET paired == Ascending({c \in Commons : Cardinality(PertsOf(c)) >= 2})
        IN  /\ Len(result.value) = Len(paired)
            /\ \A k \in 1..Len(paired) :
                  LET ps == Ascending(PertsOf(paired[k]))
                      x == RowsOf(paired[k], ps[1])
                      y == RowsOf(paired[k], ps[2])
                  IN  /\ result.value[k].rows = x \o y
                      /\ result.value[k].cells =
                            (0..(Len(x) - 1)) \X (Len(x)..(Len(x) + Len(y) - 1))

C7_Witness ==
    /\ pc = "returned"
    /\ fn = "pairs"
    /\ \E c, d \in Commons :
          /\ Cardinality(PertsOf(c)) = 1
          /\ Cardinality(PertsOf(d)) = 3
    /\ Len(result.value) = 1

\* C8: corr_between_replicates returns exactly one entry per distinct value
\* of the replicate key, and the entry of a one-row group is NaN.
C8_OnePerGroupNaN ==
    (pc = "returned" /\ fn = "replicates") =>
        LET names == {df[i][column] : i \in 1..Len(df)}
            size(v) == Cardinality({i \in 1..Len(df) : df[i][column] = v})
        IN  /\ Len(result.value) = Cardinality(names)
            /\ \A v \in names :
                  Cardinality({k \in 1..Len(result.value) : result.value[k].name = v}) = 1
            /\ \A k \in 1..Len(result.value) :
                  size(result.value[k].name) = 1 => result.value[k].correlation.nan

C8_Witness ==
    /\ pc = "returned"
    /\ fn = "replicates"
    /\ Len(result.value) = 2
    /\ result.value[1].correlation.nan
    /\ ~result.value[2].correlation.nan

\* C9: a call of a sampler leaves the caller's dataset as it was passed:
\* the same rows and the same row labels.
C9_InputUnchanged ==
    fn \in Samplers => (df = caller.df /\ index = caller.index)

\* C10: the value appended for an accepted draw of groups g1, g2 is the
\* median of exactly the cross-block of the correlation matrix of g1's
\* profiles followed by g2's: rows of g1 against columns of g2.
C10_CrossBlock ==
    (fn = "non_pairs" /\ pc \in {"loop", "returned"} /\ compounds # <<>>
        /\ replicate_grouped[compounds[1] + 1].common
             # replicate_grouped[compounds[2] + 1].common) =>
        LET g1 == replicate_grouped[compounds[1] + 1].profiles
            g2 == replicate_grouped[compounds[2] + 1].profiles
            v == null_corr[Len(null_corr)]
        IN  /\ v.rows = g1 \o g2
            /\ v.cells = (0..(Len(g1) - 1)) \X (Len(g1)..(Len(g1) + Len(g2) - 1))

====
